---- MODULE Spec2Model ----
(***************************************************************************)
(* Model of AddDatasetSchemaTerms                                          *)
(* (metadata-ingestion/src/datahub/ingestion/transformer/                  *)
(*  add_dataset_schema_terms.py).                                          *)
(*                                                                         *)
(* The transformer holds its configuration (semantics, replace_existing,   *)
(* get_terms_to_add) and a pipeline context whose graph accessor may be    *)
(* missing.  transform_aspect rewrites the field list of one schema        *)
(* metadata aspect in place; extend_field computes the glossary terms of   *)
(* one field.                                                              *)
(*                                                                         *)
(* Python values are modelled as follows:                                  *)
(*   GlossaryTermAssociationClass  [urn |-> u]                             *)
(*   AuditStampClass               [time |-> t, actor |-> a]               *)
(*   GlossaryTermsClass            [terms |-> seq, auditStamp |-> stamp]   *)
(*   SchemaFieldClass              [fieldPath |-> p, glossaryTerms |-> g]  *)
(*   SchemaMetadataClass           [fields |-> seq]                        *)
(*   Python's None                 the record None below                   *)
(* get_terms_to_add is a pure function of the field path that returns a    *)
(* fresh list on every call, as the pattern supplier of lines 147-150 does.*)
(***************************************************************************)
EXTENDS Integers, Sequences, FiniteSets, TLC

\* ---------------------------------------------------------------- bounds
MaxFields == 2      \* longest local / server field list (field-list inputs)
MaxTerms == 4       \* terms in the supplier's list, on the local field and
                    \* on the server field, taken together (term inputs)
MaxRuns == 2        \* number of calls of transform_aspect on one aspect

Paths == {"p1", "p2"}
Urns == {"T1", "T2", "T3"}

\* ---------------------------------------------------------------- values
None == [isNone |-> TRUE]

OVERWRITE == "OVERWRITE"
PATCH == "PATCH"

RestEmitter == "urn:li:corpUser:restEmitter"

AuditStampClass(time, actor) == [time |-> time, actor |-> actor]

GlossaryTermAssociationClass(urn) == [urn |-> urn]

GlossaryTermsClass(terms, auditStamp) == [terms |-> terms, auditStamp |-> auditStamp]

SchemaFieldClass(fieldPath, glossaryTerms) ==
    [fieldPath |-> fieldPath, glossaryTerms |-> glossaryTerms]

SchemaMetadataClass(fields) == [fields |-> fields]

\* Stamps carried by the input data: one written earlier by an ingestion
\* run on the local aspect, one stored on the server.
LocalStamp == AuditStampClass(0, "urn:li:corpUser:ingestion")
ServerStamp == AuditStampClass(0, "urn:li:corpUser:datahub")

\* ----------------------------------------------------------------- state
VARIABLES
    semantics,          \* self.config.semantics
    replace_existing,   \* self.config.replace_existing
    get_terms_to_add,   \* self.config.get_terms_to_add : fieldPath -> terms
    graph,              \* self.ctx.graph is configured
    server,             \* what graph.get_schema_metadata returns
    fields,             \* schema_metadata_aspect.fields
    input,              \* fields as they were when the last call started
    server_field_map,   \* the lookup built by the last call
    result,             \* outcome of the last call
    runs,               \* number of calls made so far
    clock               \* system time (builder.get_sys_time)

vars == <<semantics, replace_existing, get_terms_to_add, graph, server,
          fields, input, server_field_map, result, runs, clock>>

config == <<semantics, replace_existing, get_terms_to_add, graph, server>>

\* --------------------------------------------------------------- helpers
SeqsUpTo(S, n) == UNION {[1..k -> S] : k \in 0..n}

Urn(term) == term.urn

UrnsOf(terms) == {Urn(terms[i]) : i \in 1..Len(terms)}

\* dict.get(key): the mapped value, or None
Get(map, key) == IF key \in DOMAIN map THEN map[key] ELSE None

EmptyMap == [p \in {} |-> None]

\* ---------------------------------------------------------- extend_field
\* lines 53-63: the supplier's terms, followed by the field's own terms
\* when the user wants to keep them.  Only used once the supplier's list
\* is known to be non-empty.
all_terms_KeepAlways(schema_field) ==
    IF schema_field.glossaryTerms # None
    THEN get_terms_to_add[schema_field.fieldPath] \o schema_field.glossaryTerms.terms
    ELSE get_terms_to_add[schema_field.fieldPath]

all_terms(schema_field) ==
    IF schema_field.glossaryTerms # None /\ replace_existing = FALSE
    THEN get_terms_to_add[schema_field.fieldPath] \o schema_field.glossaryTerms.terms
    ELSE get_terms_to_add[schema_field.fieldPath]

\* line 67: the condition of "Go for patch"
go_for_patch(server_field) ==
    server_field # None /\ server_field.glossaryTerms # None

\* lines 66-69
server_terms_Dropped(server_field) == <<>>

server_terms(server_field) ==
    IF go_for_patch(server_field) THEN server_field.glossaryTerms.terms ELSE <<>>

\* lines 65-77: the terms absent from the server, or all of them when
\* that list is empty
terms_to_add(schema_field, server_field) ==
    LET server_term_urns == UrnsOf(server_terms(server_field))
        NotOnServer(term) == term.urn \notin server_term_urns
        filtered == IF go_for_patch(server_field)
                    THEN SelectSeq(all_terms(schema_field), NotOnServer)
                    ELSE <<>>
    IN  IF Len(filtered) = 0 THEN all_terms(schema_field) ELSE filtered

\* lines 81-86: the stamp of the new annotation
auditStamp_AlwaysFresh(schema_field, now) == AuditStampClass(now, RestEmitter)

auditStamp_OnlyWhenKept(schema_field, now) ==
    IF schema_field.glossaryTerms # None /\ replace_existing = FALSE
    THEN schema_field.glossaryTerms.auditStamp
    ELSE AuditStampClass(now, RestEmitter)

auditStamp(schema_field, now) ==
    IF schema_field.glossaryTerms # None
    THEN schema_field.glossaryTerms.auditStamp
    ELSE AuditStampClass(now, RestEmitter)

\* lines 79-88
new_glossary_term_ServerFirst(schema_field, server_field, now) ==
    GlossaryTermsClass(
        server_terms(server_field) \o terms_to_add(schema_field, server_field),
        auditStamp(schema_field, now))

new_glossary_term(schema_field, server_field, now) ==
    GlossaryTermsClass(
        terms_to_add(schema_field, server_field) \o server_terms(server_field),
        auditStamp(schema_field, now))

\* lines 50-92
extend_field_NoShortCircuit(schema_field, server_field, now) ==
    [schema_field EXCEPT
        !.glossaryTerms = new_glossary_term(schema_field, server_field, now)]

extend_field(schema_field, server_field, now) ==
    IF Len(get_terms_to_add[schema_field.fieldPath]) = 0
    THEN schema_field
    ELSE [schema_field EXCEPT
             !.glossaryTerms = new_glossary_term(schema_field, server_field, now)]

\* ------------------------------------------------------ transform_aspect
FieldPaths(fs) == {fs[i].fieldPath : i \in 1..Len(fs)}

NoServerData == [map |-> EmptyMap, server_field_to_add |-> <<>>]

\* The loop of lines 121-125 over the first k server fields: the cache of
\* server fields by fieldPath and the server fields to append.
RECURSIVE ServerLoop_NoAppend(_, _, _)
ServerLoop_NoAppend(server_fields, input_field_path, k) ==
    IF k = 0
    THEN NoServerData
    ELSE
      LET before == ServerLoop_NoAppend(server_fields, input_field_path, k - 1)
          field == server_fields[k]
      IN  [map |-> (field.fieldPath :> field) @@ before.map,
           server_field_to_add |-> before.server_field_to_add]

RECURSIVE ServerLoop(_, _, _)
ServerLoop(server_fields, input_field_path, k) ==
    IF k = 0
    THEN NoServerData
    ELSE
      LET before == ServerLoop(server_fields, input_field_path, k - 1)
          field == server_fields[k]
      IN  [map |-> (field.fieldPath :> field) @@ before.map,
           server_field_to_add |->
               IF field.fieldPath \notin input_field_path
               THEN Append(before.server_field_to_add, field)
               ELSE before.server_field_to_add]

\* lines 105-127 once the graph is known to be there: the server lookup
\* and the server fields missing from the input aspect
server_state_IgnoringSemantics(local_fields) ==
    IF server # None
    THEN ServerLoop(server.fields, FieldPaths(local_fields), Len(server.fields))
    ELSE NoServerData

server_state(local_fields) ==
    IF semantics = PATCH /\ server # None
    THEN ServerLoop(server.fields, FieldPaths(local_fields), Len(server.fields))
    ELSE NoServerData

\* lines 127-132: the server fields are appended, then every field is
\* extended with the server field of the same fieldPath
extended_fields(local_fields, state, now) ==
    LET working == local_fields \o state.server_field_to_add
    IN  [i \in 1..Len(working) |->
            extend_field(working[i], Get(state.map, working[i].fieldPath), now)]

\* lines 94-134
transform_aspect_Downgrade(now) ==
    /\ runs < MaxRuns
    /\ runs' = runs + 1
    /\ clock' = now
    /\ input' = fields
    /\ UNCHANGED config
    /\ LET state == IF graph THEN server_state(fields) ELSE NoServerData
       IN  /\ server_field_map' = state.map
           /\ fields' = extended_fields(fields, state, now)
           /\ result' = "returned"

transform_aspect(now) ==
    /\ runs < MaxRuns
    /\ runs' = runs + 1
    /\ clock' = now
    /\ input' = fields
    /\ UNCHANGED config
    /\ IF semantics = PATCH /\ ~graph
       THEN \* assert self.ctx.graph fails; with assertions stripped the
            \* call on the missing graph raises instead
            /\ result' \in {"AssertionError", "AttributeError"}
            /\ UNCHANGED <<fields, server_field_map>>
       ELSE /\ server_field_map' = server_state(fields).map
            /\ fields' = extended_fields(fields, server_state(fields), now)
            /\ result' = "returned"

\* ------------------------------------------------------------------ Init
\* Inputs with many fields and few terms.
FewLocalFields ==
    {SchemaFieldClass(p, g) :
        p \in Paths,
        g \in {None,
               GlossaryTermsClass(<<GlossaryTermAssociationClass("T3")>>, LocalStamp)}}

FewServerFields ==
    {SchemaFieldClass(p, g) :
        p \in Paths,
        g \in {None,
               GlossaryTermsClass(<<GlossaryTermAssociationClass("T2")>>, ServerStamp)}}

FewSupplied ==
    {<<>>, <<GlossaryTermAssociationClass("T1"), GlossaryTermAssociationClass("T2")>>}

InitFields ==
    /\ semantics \in {OVERWRITE, PATCH}
    /\ replace_existing \in BOOLEAN
    /\ get_terms_to_add \in [Paths -> FewSupplied]
    /\ fields \in SeqsUpTo(FewLocalFields, MaxFields)
    /\ \/ /\ graph = TRUE
          /\ server \in {None} \cup
                 {SchemaMetadataClass(fs) : fs \in SeqsUpTo(FewServerFields, MaxFields)}
       \/ \* without a graph there is nothing to fetch from
          /\ graph = FALSE
          /\ server = None

\* Inputs with one local field, at most one server field and many terms;
\* the supplier is the single match-everything rule of
\* KeyValuePattern.all() (line 138).
Terms == {GlossaryTermAssociationClass(u) : u \in Urns}

\* the annotations with n terms; no annotation at all counts as n = 0
Annotations(n, stamp) ==
    {GlossaryTermsClass(ts, stamp) : ts \in [1..n -> Terms]}
        \cup (IF n = 0 THEN {None} ELSE {})

InitTerms ==
    /\ semantics \in {OVERWRITE, PATCH}
    /\ replace_existing \in BOOLEAN
    /\ graph = TRUE
    /\ \E a \in 0..MaxTerms : \E b \in 0..(MaxTerms - a) : \E c \in 0..(MaxTerms - a - b) :
          /\ get_terms_to_add \in {[p \in Paths |-> ts] : ts \in [1..a -> Terms]}
          /\ fields \in {<<SchemaFieldClass("p1", g)>> : g \in Annotations(b, LocalStamp)}
          /\ server \in
                 {SchemaMetadataClass(<<SchemaFieldClass(p, g)>>) :
                      p \in Paths, g \in Annotations(c, ServerStamp)}
                 \cup (IF c = 0 THEN {None, SchemaMetadataClass(<<>>)} ELSE {})

Init ==
    /\ InitFields \/ InitTerms
    /\ input = fields
    /\ server_field_map = EmptyMap
    /\ result = "none"
    /\ runs = 0
    /\ clock = 1

\* the call happens within the clock's current tick or in the next one
Next == \E now \in {clock, clock + 1} : transform_aspect(now)

Spec == Init /\ [][Next]_vars

TypeOK ==
    /\ semantics \in {OVERWRITE, PATCH}
    /\ result \in {"none", "returned", "AssertionError", "AttributeError"}
    /\ runs \in 0..MaxRuns
    /\ clock \in 1..(1 + MaxRuns)

\* ------------------------------------------------------------ properties
\* The definitions below describe a finished call from its inputs alone:
\* input (the local list), server and the configuration.
Returned == result = "returned"

Failed == result \in {"AssertionError", "AttributeError"}

T(u) == GlossaryTermAssociationClass(u)

PathSeq(fs) == [i \in 1..Len(fs) |-> fs[i].fieldPath]

Annotated(field) == field.glossaryTerms # None

TermsOf(field) ==
    IF Annotated(field) THEN field.glossaryTerms.terms ELSE <<>>

NoRepeats(terms) ==
    \A i, j \in 1..Len(terms) : terms[i].urn = terms[j].urn => i = j

ServerFetched == semantics = PATCH /\ server # None

ServerFields == IF ServerFetched THEN server.fields ELSE <<>>

NotLocal(field) == field.fieldPath \notin FieldPaths(input)

\* server fields whose fieldPath is absent from the local list
ServerOnly == SelectSeq(ServerFields, NotLocal)

\* the list the per-field merge is applied to
Working == input \o ServerOnly

HasServerEntry(p) == p \in FieldPaths(ServerFields)

\* the server's entry for a fieldPath; the last one when the path repeats
ServerEntry(p) ==
    LET last == CHOOSE i \in 1..Len(ServerFields) :
                    /\ ServerFields[i].fieldPath = p
                    /\ \A j \in (i + 1)..Len(ServerFields) :
                           ServerFields[j].fieldPath # p
    IN  ServerFields[last]

HasServerTerms(p) == HasServerEntry(p) /\ Annotated(ServerEntry(p))

Supplied(field) == get_terms_to_add[field.fieldPath]

\* the desired terms of a field: nothing when the supplier returns nothing,
\* else the supplied terms followed by the field's own when they are kept
Desired(field) ==
    IF Supplied(field) = <<>> THEN <<>>
    ELSE IF Annotated(field) /\ ~replace_existing
         THEN Supplied(field) \o TermsOf(field)
         ELSE Supplied(field)

Without(terms, urns) ==
    LET Absent(term) == term.urn \notin urns
    IN  SelectSeq(terms, Absent)

\* C1: when the supplier's results, the local fields' terms and the server
\* fields' terms are each free of repeated urns, no output field repeats
\* a urn in its terms.
C1_DedupInvariant ==
    ( /\ Returned
      /\ \A p \in Paths : NoRepeats(get_terms_to_add[p])
      /\ \A i \in 1..Len(input) : NoRepeats(TermsOf(input[i]))
      /\ \A i \in 1..Len(ServerFields) : NoRepeats(TermsOf(ServerFields[i])) )
    => \A i \in 1..Len(fields) : NoRepeats(TermsOf(fields[i]))

\* C2: under PATCH the returned list holds the local fields in their input
\* order followed by the server-only fields in server order, hence every
\* fieldPath of the local and of the server list.
C2_NoDataLossUnderPatch ==
    (Returned /\ semantics = PATCH)
    => /\ PathSeq(fields) = PathSeq(input) \o PathSeq(ServerOnly)
       /\ FieldPaths(input) \cup FieldPaths(ServerFields) \subseteq FieldPaths(fields)

C2_Witness ==
    /\ Returned /\ semantics = PATCH
    /\ PathSeq(input) = <<"p1">>
    /\ server # None /\ PathSeq(server.fields) = <<"p2", "p1">>
    /\ PathSeq(fields) = <<"p1", "p2">>

\* C3 as stated: under PATCH, every local field whose fieldPath the server
\* holds with a term annotation comes out with all the server's urns, for
\* any supplier result.
C3_Original ==
    (Returned /\ semantics = PATCH)
    => \A i \in 1..Len(input) : \A k \in 1..Len(ServerFields) :
           (ServerFields[k].fieldPath = input[i].fieldPath /\ Annotated(ServerFields[k]))
           => UrnsOf(TermsOf(ServerFields[k])) \subseteq UrnsOf(TermsOf(fields[i]))

\* C3 amended: under PATCH, every local field with a non-empty supplier
\* result whose server entry (the last one for the fieldPath) carries a
\* term annotation comes out with all the urns of that server entry.
C3_PatchKeepsServerTerms ==
    (Returned /\ semantics = PATCH)
    => \A i \in 1..Len(input) :
           (Supplied(input[i]) # <<>> /\ HasServerTerms(input[i].fieldPath))
           => UrnsOf(TermsOf(ServerEntry(input[i].fieldPath)))
                  \subseteq UrnsOf(TermsOf(fields[i]))

C3_Witness ==
    /\ Returned /\ semantics = PATCH /\ runs = 1
    /\ Len(input) = 1
    /\ Supplied(input[1]) = <<T("T1")>>
    /\ TermsOf(input[1]) = <<T("T3")>>
    /\ HasServerTerms("p1")
    /\ TermsOf(ServerEntry("p1")) = <<T("T2"), T("T1")>>
    /\ UrnsOf(TermsOf(fields[1])) = {"T1", "T2", "T3"}

\* C4: when the server entry of a field carries a term annotation and some
\* desired term's urn is not on the server, the field's terms are the
\* desired terms absent from the server, in desired order, followed by the
\* server's terms in server order.
C4_PatchDelta ==
    Returned
    => \A i \in 1..Len(Working) :
           LET w == Working[i]
               p == w.fieldPath
           IN  ( /\ HasServerTerms(p)
                 /\ \E k \in 1..Len(Desired(w)) :
                        Desired(w)[k].urn \notin UrnsOf(TermsOf(ServerEntry(p))) )
               => TermsOf(fields[i]) =
                      Without(Desired(w), UrnsOf(TermsOf(ServerEntry(p))))
                          \o TermsOf(ServerEntry(p))

C4_Witness ==
    /\ Returned /\ runs = 1
    /\ Len(input) = 1 /\ ~Annotated(input[1])
    /\ Supplied(input[1]) = <<T("T1"), T("T2")>>
    /\ HasServerTerms("p1")
    /\ TermsOf(ServerEntry("p1")) = <<T("T1")>>
    /\ TermsOf(fields[1]) = <<T("T2"), T("T1")>>

\* C5: a field of the working list for which the supplier returns nothing
\* comes out exactly as it went in, annotation and stamp included.
C5_PreservationOnEmptySupplier ==
    Returned
    => /\ Len(fields) = Len(Working)
       /\ \A i \in 1..Len(Working) :
              Supplied(Working[i]) = <<>> => fields[i] = Working[i]

C5_Witness ==
    /\ Returned /\ semantics = PATCH /\ runs = 1
    /\ Len(input) = 1 /\ Len(ServerOnly) = 1
    /\ Supplied(input[1]) = <<>> /\ Annotated(input[1])
    /\ HasServerTerms(input[1].fieldPath)
    /\ Supplied(ServerOnly[1]) # <<>>
    /\ Annotated(ServerOnly[1])
    /\ fields[1] = input[1]

\* C6: under OVERWRITE the output has the fieldPaths of the local list, in
\* order, no server lookup is built and every output term comes from the
\* supplier or from the field's own terms.
C6_PolicyBoundary ==
    (Returned /\ semantics = OVERWRITE)
    => /\ PathSeq(fields) = PathSeq(input)
       /\ server_field_map = EmptyMap
       /\ \A i \in 1..Len(input) :
              UrnsOf(TermsOf(fields[i]))
                  \subseteq UrnsOf(Supplied(input[i])) \cup UrnsOf(TermsOf(input[i]))

C6_Witness ==
    /\ Returned /\ semantics = OVERWRITE /\ graph /\ runs = 1
    /\ PathSeq(input) = <<"p1">>
    /\ Supplied(input[1]) = <<T("T1")>>
    /\ server # None /\ PathSeq(server.fields) = <<"p1">>
    /\ TermsOf(server.fields[1]) = <<T("T2")>>
    /\ TermsOf(fields[1]) = <<T("T1")>>

\* C7: a field with a non-empty supplier result and no server entry for
\* its fieldPath gets the supplier's terms, followed by its own previous
\* terms when it was annotated and replace_existing is false.
C7_FullAddWithoutServer ==
    Returned
    => \A i \in 1..Len(Working) :
           LET w == Working[i]
           IN  (Supplied(w) # <<>> /\ ~HasServerEntry(w.fieldPath))
               => TermsOf(fields[i]) =
                      Supplied(w) \o
                      (IF Annotated(w) /\ ~replace_existing THEN TermsOf(w) ELSE <<>>)

C7_Witness ==
    /\ Returned /\ semantics = PATCH /\ ~replace_existing /\ runs = 1
    /\ server # None /\ PathSeq(server.fields) = <<"p2">>
    /\ PathSeq(input) = <<"p1">>
    /\ Supplied(input[1]) = <<T("T1")>>
    /\ TermsOf(input[1]) = <<T("T3")>>
    /\ TermsOf(fields[1]) = <<T("T1"), T("T3")>>

\* C8: under OVERWRITE with replace_existing, a call on the output of an
\* earlier call returns every field as the earlier call left it.
C8_IdempotentOverwrite ==
    (Returned /\ semantics = OVERWRITE /\ replace_existing /\ runs >= 2)
    => fields = input

C8_Witness ==
    /\ Returned /\ semantics = OVERWRITE /\ replace_existing /\ runs = 2
    /\ clock = 2
    /\ Len(fields) = 2
    /\ fields[1].glossaryTerms = GlossaryTermsClass(<<T("T1"), T("T2")>>, LocalStamp)
    /\ fields[2].glossaryTerms =
           GlossaryTermsClass(<<T("T1"), T("T2")>>, AuditStampClass(1, RestEmitter))

\* C9: with PATCH and no graph, a call fails, builds no lookup and leaves
\* the aspect's fields as they were.
C9_ConfigurationError ==
    (semantics = PATCH /\ ~graph /\ runs >= 1)
    => /\ Failed
       /\ fields = input
       /\ server_field_map = EmptyMap

C9_Witness ==
    /\ semantics = PATCH /\ ~graph /\ runs = 1 /\ Failed
    /\ Len(fields) = 2
    /\ Supplied(fields[1]) # <<>>
    /\ Annotated(fields[2])

\* C10: a field with a non-empty supplier result keeps the stamp of its
\* own annotation when it had one, and otherwise gets a stamp of the
\* current time with the actor urn:li:corpUser:restEmitter, whatever the
\* server holds.
C10_AuditStampProvenance ==
    Returned
    => \A i \in 1..Len(Working) :
           LET w == Working[i]
           IN  Supplied(w) # <<>>
               => /\ Annotated(fields[i])
                  /\ fields[i].glossaryTerms.auditStamp =
                         IF Annotated(w)
                         THEN w.glossaryTerms.auditStamp
                         ELSE AuditStampClass(clock, "urn:li:corpUser:restEmitter")

C10_Witness ==
    /\ Returned /\ semantics = PATCH /\ runs = 1
    /\ Len(input) = 2
    /\ input[1].fieldPath = input[2].fieldPath
    /\ ~Annotated(input[1]) /\ Annotated(input[2])
    /\ Supplied(input[1]) # <<>>
    /\ HasServerTerms(input[1].fieldPath)
    /\ ServerEntry(input[1].fieldPath).glossaryTerms.auditStamp = ServerStamp
    /\ fields[1].glossaryTerms.auditStamp = AuditStampClass(clock, RestEmitter)
    /\ fields[2].glossaryTerms.auditStamp = LocalStamp
====
